---- MODULE Spec2Model ----
(***************************************************************************)
(* Model of load_balancer/slow-server/server.py: a single-threaded         *)
(* http.server.HTTPServer whose handler class SlowHandler defines only     *)
(* do_GET (sleep 5 seconds, then write a fixed 200 response).              *)
(*                                                                         *)
(* The server process is one sequential thread (HTTPServer is not the      *)
(* threading variant): `pc` is its position and `cur` the one connection   *)
(* it is handling.  Clients are the environment: they connect, send one    *)
(* request (method, path, version, Connection header) and may disconnect   *)
(* at any moment.  Time is discrete (one unit = one second); time passes   *)
(* only while the server thread is blocked (in select, in readline or in   *)
(* time.sleep): every other step of the server is taken as instantaneous.  *)
(***************************************************************************)
EXTENDS Naturals, Sequences, FiniteSets

\* ------------------------------------------------------------- bounds
NumConns == 2
MaxWait == 6

\* -------------------------------------------------- program constants
DELAY == 5
OK == 200
BAD_REQUEST == 400
NOT_IMPLEMENTED == 501
PROTOCOL_VERSION == "HTTP/1.0"
\* (variant: another body text)
BodyOther == "Response from SLOW SERVER"

BODY == "Response from SLOW SERVER (5s delay)"
CT_HEADER == "Content-type: text/plain"
SERVER_HEADER == "Server: BaseHTTP/0.6 Python/3"
DATE_HEADER == "Date: <now>"
ERROR_HEADERS == <<"Connection: close", "Content-Type: text/html;charset=utf-8", "Content-Length: <n>">>
ERROR_BODY == "<html>error</html>"

\* ------------------------------------------------------------- inputs
Conns == 1..NumConns
Req(m, p, v, h) == [method |-> m, path |-> p, version |-> v, connection |-> h]

\* the requests a client may send: both methods, both kinds of request line
\* (with a version, and the HTTP/0.9 simple request without one), two paths,
\* with and without a Connection: keep-alive header
Requests ==
    { Req("GET", "/", "HTTP/1.1", "none"),
      Req("GET", "/slow", "HTTP/1.1", "keep-alive"),
      Req("GET", "/slow", "HTTP/0.9", "none"),
      Req("POST", "/", "HTTP/1.1", "none"),
      Req("POST", "/slow", "HTTP/0.9", "none") }
NoReq == [method |-> "-", path |-> "-", version |-> "-", connection |-> "-"]
NoConn == 0

VARIABLES
    portFree,    \* environment: whether ("0.0.0.0", 80) can be bound
    proc,        \* "start" | "serving" | "exited"
    exitStatus,  \* exit status of the process once exited
    backlog,     \* the listening socket's queue of established connections
    cur,         \* the connection the server thread is handling (NoConn: none)
    pc,          \* position of the server thread
    slept,       \* per connection: seconds its handler has spent in time.sleep
    hbuf,        \* the current handler's _headers_buffer
    status,      \* per connection: status code passed to send_response (0: none)
    cli,         \* per connection, client side: "idle" | "connected" | "sent" | "gone"
    req,         \* per connection: the request the client sent (NoReq: none)
    wire,        \* per connection: the response lines the client has received
    life,        \* per connection: the lifecycle states the server took it through
    failed,      \* per connection: its handler raised (a failed write or read)
    waited,      \* per connection: seconds its request has been pending so far (0 once nobody waits)
    late         \* per connection: closed more than DELAY seconds after its request was sent

vars == <<portFree, proc, exitStatus, backlog, cur, pc, slept, hbuf, status,
          cli, req, wire, life, failed, waited, late>>

\* ------------------------------------------------------------ helpers
Last(s) == s[Len(s)]

Min(a, b) == IF a < b THEN a ELSE b

Closed(c) == life[c] # <<>> /\ Last(life[c]) = "closed"

\* "%s %d %s" % (protocol_version, code, message)
StatusLine(code) ==
    IF code = OK THEN PROTOCOL_VERSION \o " 200 OK"
    ELSE IF code = NOT_IMPLEMENTED THEN PROTOCOL_VERSION \o " 501 Unsupported method"
    ELSE PROTOCOL_VERSION \o " 400 Bad HTTP/0.9 request type"

\* (variant: send_response_only(code), without the Server and Date headers)
SendResponseOnlyBuf(r, code) ==
    IF r.version # "HTTP/0.9" THEN <<StatusLine(code)>> ELSE <<>>

\* send_response(code): send_response_only and send_header append to the
\* headers buffer only when the request is not an HTTP/0.9 simple request.
SendResponseBuf(r, code) ==
    IF r.version # "HTTP/0.9"
    THEN <<StatusLine(code), SERVER_HEADER, DATE_HEADER>>
    ELSE <<>>

\* send_header(keyword, value)
SendHeaderBuf(r, buf, line) ==
    IF r.version # "HTTP/0.9" THEN Append(buf, line) ELSE buf

\* end_headers(): the blank line, then the buffer is what flush_headers writes
EndHeadersBuf(r, buf) ==
    IF r.version # "HTTP/0.9" THEN Append(buf, "") ELSE buf

\* (variant: persistence is honoured, as under protocol_version HTTP/1.1)
KeepAliveHonoured(r) ==
    ~ (r.version = "HTTP/1.1" \/ r.connection = "keep-alive")

\* parse_request's close_connection: keep-alive and HTTP/1.1 persistence are
\* honoured only when the handler's protocol_version is HTTP/1.1 or later.
CloseConnection(r) ==
    ~ (PROTOCOL_VERSION # "HTTP/1.0"
       /\ (r.version = "HTTP/1.1" \/ r.connection = "keep-alive"))

\* (variant: the handler method is not found under the name do_GET)
NoHandlerMethods == {}

HandlerMethods == {"GET"}

\* (variant: only the path "/" is served)
ErrorForByPath(r) ==
    IF r.version = "HTTP/0.9" /\ r.method # "GET" THEN BAD_REQUEST
    ELSE IF r.method \notin HandlerMethods \/ r.path # "/" THEN NOT_IMPLEMENTED
    ELSE 0

\* the status of the error reply for a request no handler method serves
\* (0: the request is dispatched to its do_<method>)
ErrorFor(r) ==
    IF r.version = "HTTP/0.9" /\ r.method # "GET" THEN BAD_REQUEST
    ELSE IF r.method \notin HandlerMethods THEN NOT_IMPLEMENTED
    ELSE 0

\* ---------------------------------------------------------------- Init
Init ==
    /\ portFree \in BOOLEAN
    /\ proc = "start"
    /\ exitStatus = 0
    /\ backlog = <<>>
    /\ cur = NoConn
    /\ pc = "bind"
    /\ slept = [c \in Conns |-> 0]
    /\ hbuf = <<>>
    /\ status = [c \in Conns |-> 0]
    /\ cli = [c \in Conns |-> "idle"]
    /\ req = [c \in Conns |-> NoReq]
    /\ wire = [c \in Conns |-> <<>>]
    /\ life = [c \in Conns |-> <<>>]
    /\ failed = [c \in Conns |-> FALSE]
    /\ waited = [c \in Conns |-> 0]
    /\ late = [c \in Conns |-> FALSE]

\* ------------------------------------------------------------- startup
\* HTTPServer(("0.0.0.0", 80), SlowHandler): server_bind and server_activate
BindOk ==
    /\ proc = "start" /\ portFree
    /\ proc' = "serving"
    /\ pc' = "accept"
    /\ UNCHANGED <<portFree, exitStatus, backlog, cur, slept, hbuf, status,
                   cli, req, wire, life, failed, waited, late>>

\* (variant: the failure is swallowed and the program ends normally)
ExitZero == 1 - 1

\* exit status of the interpreter after an uncaught exception
UncaughtExit == 1

\* the constructor raises OSError; nothing catches it: traceback, exit
BindFail ==
    /\ proc = "start" /\ ~ portFree
    /\ proc' = "exited"
    /\ exitStatus' = UncaughtExit
    /\ pc' = "exited"
    /\ UNCHANGED <<portFree, backlog, cur, slept, hbuf, status,
                   cli, req, wire, life, failed, waited, late>>

\* ------------------------------------------------------------- clients
\* connections are numbered in the order in which they are established
Connect(c) ==
    /\ proc = "serving"
    /\ cli[c] = "idle"
    /\ \A d \in 1..(c - 1) : cli[d] # "idle"
    /\ cli' = [cli EXCEPT ![c] = "connected"]
    /\ backlog' = Append(backlog, c)
    /\ UNCHANGED <<portFree, proc, exitStatus, cur, pc, slept, hbuf, status,
                   req, wire, life, failed, waited, late>>

Send(c, r) ==
    /\ cli[c] = "connected"
    /\ cli' = [cli EXCEPT ![c] = "sent"]
    /\ req' = [req EXCEPT ![c] = r]
    /\ UNCHANGED <<portFree, proc, exitStatus, backlog, cur, pc, slept, hbuf,
                   status, wire, life, failed, waited, late>>

Disconnect(c) ==
    /\ cli[c] \in {"connected", "sent"}
    /\ ~ Closed(c)
    /\ cli' = [cli EXCEPT ![c] = "gone"]
    /\ waited' = [waited EXCEPT ![c] = 0]
    /\ UNCHANGED <<portFree, proc, exitStatus, backlog, cur, pc, slept, hbuf,
                   status, req, wire, life, failed, late>>

\* -------------------------------------------------------------- server
\* (variant: connections are accepted while a handler sleeps, as a server
\* with a thread per request would)
CanAcceptWhileBusy == pc \in {"accept", "sleep"}

\* the serve_forever loop gets the next request only after the handler of the
\* previous one has returned and its connection is shut down
CanAccept == pc = "accept"

\* (variant: the headers buffer outlives the handler, as a class attribute)
StaleBuffer == hbuf

\* each connection gets a new SlowHandler object, which has no headers buffer
FreshBuffer == <<>>

\* serve_forever -> _handle_request_noblock -> get_request: accept the oldest
\* queued connection; the handler object is constructed and handle() starts
Accept ==
    /\ proc = "serving" /\ CanAccept
    /\ backlog # <<>>
    /\ cur' = Head(backlog)
    /\ backlog' = Tail(backlog)
    /\ pc' = "readline"
    /\ life' = [life EXCEPT ![Head(backlog)] = <<"accepted">>]
    /\ UNCHANGED <<portFree, proc, exitStatus, slept, hbuf, status,
                   cli, req, wire, failed, waited, late>>

\* shutdown_request(request): the server closes the connection and returns
\* to the serve_forever loop
ShutdownRequest(c) ==
    /\ life' = [life EXCEPT ![c] = Append(@, "closed")]
    /\ cur' = NoConn
    /\ pc' = "accept"
    /\ hbuf' = FreshBuffer
    /\ waited' = [waited EXCEPT ![c] = 0]
    /\ late' = [late EXCEPT ![c] = waited[c] > DELAY]

\* (variant: the handler does not sleep)
SleepSkipped(c) == TRUE

\* time.sleep(5) has returned in the handler of connection c
SleepOver(c) == slept[c] >= DELAY

\* (variant: the handler returns after end_headers)
BodySkipped == "finish"

\* position after flush_headers (do_GET line 10 follows end_headers)
AfterEndHeaders == "write_body"

\* (variant: the exception of a handler ends the process)
HandlerErrorFatal == "exited"

\* process state after a handler raised: _handle_request_noblock catches
\* Exception, calls handle_error and shutdown_request; the loop goes on
AfterHandlerError == "serving"

\* handle_one_request: rfile.readline() returned a request line, parse_request
\* read the headers; dispatch on 'do_' + command
ReadRequest ==
    /\ proc = "serving" /\ pc = "readline"
    /\ req[cur] # NoReq
    /\ IF ErrorFor(req[cur]) # 0
       THEN /\ pc' = "send_error"
            /\ life' = life
       ELSE /\ pc' = "sleep"
            /\ life' = [life EXCEPT ![cur] = Append(@, "delaying")]
    /\ UNCHANGED <<portFree, proc, exitStatus, backlog, cur, slept, hbuf, status,
                   cli, req, wire, failed, waited, late>>

\* handle_one_request: readline returned b'' (the peer closed before sending
\* a request): close_connection = True; return; then shutdown_request
ReadEOF ==
    /\ proc = "serving" /\ pc = "readline"
    /\ req[cur] = NoReq /\ cli[cur] = "gone"
    /\ ShutdownRequest(cur)
    /\ UNCHANGED <<portFree, proc, exitStatus, backlog, slept, status,
                   cli, req, wire, failed>>

\* do_GET line 7: send_response(200) once time.sleep(5) has returned
SendResponse ==
    /\ proc = "serving" /\ pc = "sleep"
    /\ SleepOver(cur)
    /\ hbuf' = hbuf \o SendResponseBuf(req[cur], OK)
    /\ status' = [status EXCEPT ![cur] = OK]
    /\ life' = [life EXCEPT ![cur] = Append(@, "responding")]
    /\ pc' = "send_header"
    /\ UNCHANGED <<portFree, proc, exitStatus, backlog, cur, slept,
                   cli, req, wire, failed, waited, late>>

\* do_GET line 8: send_header("Content-type", "text/plain")
SendHeader ==
    /\ proc = "serving" /\ pc = "send_header"
    /\ hbuf' = SendHeaderBuf(req[cur], hbuf, CT_HEADER)
    /\ pc' = "end_headers"
    /\ UNCHANGED <<portFree, proc, exitStatus, backlog, cur, slept, status,
                   cli, req, wire, life, failed, waited, late>>

\* wfile.write(data) that does not raise: a connected peer receives all of
\* data (sendall); a peer that is gone receives nothing
Written(c, data) ==
    wire' = [wire EXCEPT ![c] = IF cli[c] = "gone" THEN @ ELSE @ \o data]

\* do_GET line 9: end_headers() appends the blank line and flushes the buffer
EndHeaders ==
    /\ proc = "serving" /\ pc = "end_headers"
    /\ Written(cur, EndHeadersBuf(req[cur], hbuf))
    /\ hbuf' = <<>>
    /\ pc' = AfterEndHeaders
    /\ UNCHANGED <<portFree, proc, exitStatus, backlog, cur, slept, status,
                   cli, req, life, failed, waited, late>>

\* do_GET line 10: wfile.write(b"Response from SLOW SERVER (5s delay)")
WriteBody ==
    /\ proc = "serving" /\ pc = "write_body"
    /\ Written(cur, <<BODY>>)
    /\ pc' = "finish"
    /\ UNCHANGED <<portFree, proc, exitStatus, backlog, cur, slept, hbuf,
                   status, cli, req, life, failed, waited, late>>

\* send_error(code, message): send_response, then the Connection, Content-Type
\* and Content-Length headers go to the headers buffer
SendError ==
    /\ proc = "serving" /\ pc = "send_error"
    /\ status' = [status EXCEPT ![cur] = ErrorFor(req[cur])]
    /\ life' = [life EXCEPT ![cur] = Append(@, "responding")]
    /\ LET r == req[cur]
           b0 == hbuf \o SendResponseBuf(r, ErrorFor(r))
           b1 == SendHeaderBuf(r, b0, ERROR_HEADERS[1])
           b2 == SendHeaderBuf(r, b1, ERROR_HEADERS[2])
       IN hbuf' = SendHeaderBuf(r, b2, ERROR_HEADERS[3])
    /\ pc' = "error_headers"
    /\ UNCHANGED <<portFree, proc, exitStatus, backlog, cur, slept,
                   cli, req, wire, failed, waited, late>>

\* send_error: end_headers() appends the blank line and flushes the buffer
ErrorEndHeaders ==
    /\ proc = "serving" /\ pc = "error_headers"
    /\ Written(cur, EndHeadersBuf(req[cur], hbuf))
    /\ hbuf' = <<>>
    /\ pc' = "error_body"
    /\ UNCHANGED <<portFree, proc, exitStatus, backlog, cur, slept, status,
                   cli, req, life, failed, waited, late>>

\* send_error: wfile.write(body), the HTML page explaining the error
WriteErrorBody ==
    /\ proc = "serving" /\ pc = "error_body"
    /\ Written(cur, <<ERROR_BODY>>)
    /\ pc' = "finish"
    /\ UNCHANGED <<portFree, proc, exitStatus, backlog, cur, slept, hbuf,
                   status, cli, req, life, failed, waited, late>>

\* whether the step at pc writes to the socket
WritesAt(p, r) ==
    \/ p \in {"write_body", "error_body"}
    \/ p \in {"end_headers", "error_headers"} /\ r.version # "HTTP/0.9"

\* a write to a peer that is gone raises BrokenPipeError / ConnectionResetError
\* out of the handler: handle_error, shutdown_request, back to the loop
HandlerRaises ==
    /\ proc = "serving"
    /\ cur # NoConn
    /\ WritesAt(pc, req[cur])
    /\ cli[cur] = "gone"
    /\ failed' = [failed EXCEPT ![cur] = TRUE]
    /\ IF AfterHandlerError = "serving"
       THEN /\ ShutdownRequest(cur)
            /\ UNCHANGED <<proc, exitStatus>>
       ELSE /\ proc' = "exited"
            /\ exitStatus' = UncaughtExit
            /\ pc' = "exited"
            /\ UNCHANGED <<life, cur, hbuf, waited, late>>
    /\ UNCHANGED <<portFree, backlog, slept, status, cli, req, wire>>

\* handle_one_request returns; handle() loops while not close_connection;
\* then finish() and shutdown_request
Finish ==
    /\ proc = "serving" /\ pc = "finish"
    /\ IF CloseConnection(req[cur])
       THEN /\ ShutdownRequest(cur)
            /\ req' = req
       ELSE /\ pc' = "readline"
            /\ req' = [req EXCEPT ![cur] = NoReq]
            /\ life' = [life EXCEPT ![cur] = Append(@, "accepted")]
            /\ UNCHANGED <<cur, hbuf, waited, late>>
    /\ UNCHANGED <<portFree, proc, exitStatus, backlog, slept, status,
                   cli, wire, failed>>

\* ---------------------------------------------------------------- time
\* the server thread is blocked: in select() with nothing queued, in
\* rfile.readline() with nothing to read, or in time.sleep
Blocked ==
    \/ pc = "accept" /\ backlog = <<>>
    \/ pc = "readline" /\ req[cur] = NoReq /\ cli[cur] # "gone"
    \/ pc = "sleep" /\ ~ SleepOver(cur)

\* a request is pending: sent, its client still there, not yet closed
Pending(c) == cli[c] = "sent" /\ ~ Closed(c)

\* one second passes
Tick ==
    /\ proc = "serving"
    /\ Blocked
    /\ slept' = IF pc = "sleep" THEN [slept EXCEPT ![cur] = @ + 1] ELSE slept
    /\ waited' = [c \in Conns |->
                    IF Pending(c) THEN Min(waited[c] + 1, MaxWait) ELSE waited[c]]
    /\ UNCHANGED <<portFree, proc, exitStatus, backlog, cur, pc, hbuf, status,
                   cli, req, wire, life, failed, late>>

\* ------------------------------------------------------- specification
ServerStep ==
    \/ BindOk
    \/ BindFail
    \/ Accept
    \/ ReadRequest
    \/ ReadEOF
    \/ SendResponse
    \/ SendHeader
    \/ EndHeaders
    \/ WriteBody
    \/ SendError
    \/ ErrorEndHeaders
    \/ WriteErrorBody
    \/ HandlerRaises
    \/ Finish

ClientStep ==
    \/ \E c \in Conns : Connect(c)
    \/ \E c \in Conns : \E r \in Requests : Send(c, r)
    \/ \E c \in Conns : Disconnect(c)

Next == ServerStep \/ ClientStep \/ Tick

Spec == Init /\ [][Next]_vars

\* the operating system schedules the server thread and time passes; clients
\* are under no obligation
FairSpec == Spec /\ WF_vars(ServerStep) /\ WF_vars(Tick)

\* ================================================================ claims
\* the client of c sent a request and stayed connected
Stayed(c) == cli[c] = "sent"

InLife(c, phase) == \E i \in 1..Len(life[c]) : life[c][i] = phase

IsPrefix(s, t) == Len(s) <= Len(t) /\ \A i \in 1..Len(s) : s[i] = t[i]

\* the server has finished with the request of c: it closed the connection or
\* went back to reading on it
Released(c) == Closed(c) \/ \E i \in 2..Len(life[c]) : life[c][i] = "accepted"

\* the response the running server gives to GET with an HTTP/1.x request line
Wire200 ==
    <<"HTTP/1.0 200 OK", "Server: BaseHTTP/0.6 Python/3", "Date: <now>",
      "Content-type: text/plain", "", "Response from SLOW SERVER (5s delay)">>

\* the bit-exact response of the specification's wire protocol section
SpecWire200 ==
    <<"HTTP/1.1 200 OK", "Content-type: text/plain", "",
      "Response from SLOW SERVER (5s delay)">>

\* a successful exchange: do_GET ran to its end for a client that stayed
Successful(c) == Stayed(c) /\ Released(c) /\ status[c] = 200

\* a GET request that is pending: sent by a client that stays, and not yet
\* answered and closed
PendingGet(c) == Pending(c) /\ req[c].method = "GET"

\* C1 (as claimed): requests are not serialized.  Two GET requests that
\* arrived at the same time (they have been pending equally long) are equally
\* far into their delays, neither waits for the delay of the other to finish;
\* and every delivered response completed within one fixed delay of its
\* request's arrival.
C1_NotSerialized ==
    /\ \A c \in Conns : \A d \in Conns :
          PendingGet(c) /\ PendingGet(d) /\ waited[c] = waited[d]
              => slept[c] = slept[d]
    /\ \A c \in Conns : Successful(c) => ~ late[c]

C3_Always200HeaderBody ==
    \A c \in Conns :
        Successful(c) =>
            /\ wire[c] # <<>>
            /\ wire[c][1] \in {"HTTP/1.0 200 OK", "HTTP/1.1 200 OK"}
            /\ \E i \in 1..Len(wire[c]) : wire[c][i] = "Content-type: text/plain"
            /\ Last(wire[c]) = "Response from SLOW SERVER (5s delay)"

\* C3 (amended): every successful response to a request with an HTTP/1.x
\* request line carries the status 200, the header Content-type: text/plain
\* and the fixed body, whatever the path and headers; the successful response
\* to an HTTP/0.9 simple request is the fixed body alone.
C3_Http1HeaderBody ==
    \A c \in Conns :
        Successful(c) =>
            IF req[c].version = "HTTP/0.9"
            THEN wire[c] = <<"Response from SLOW SERVER (5s delay)">>
            ELSE /\ wire[c] # <<>>
                 /\ wire[c][1] \in {"HTTP/1.0 200 OK", "HTTP/1.1 200 OK"}
                 /\ \E i \in 1..Len(wire[c]) : wire[c][i] = "Content-type: text/plain"
                 /\ Last(wire[c]) = "Response from SLOW SERVER (5s delay)"

\* C3 witness: a GET with an HTTP/1.1 request line and a keep-alive header got its response
C3_Witness ==
    \E c \in Conns :
        /\ Successful(c) /\ req[c].version = "HTTP/1.1"
        /\ req[c].connection = "keep-alive"
        /\ Len(wire[c]) > 1

C5_BitExactTemplate ==
    \A c \in Conns :
        Successful(c) /\ req[c].version # "HTTP/0.9" => wire[c] = SpecWire200

\* C5 (amended): the response on the wire to a request with an HTTP/1.x
\* request line is the status line "HTTP/1.0 200 OK", a Server header, a Date
\* header, the header Content-type: text/plain, a blank line, then the fixed
\* body, in this order and nothing else.
C5_WireAsSent ==
    \A c \in Conns :
        Successful(c) /\ req[c].version # "HTTP/0.9" => wire[c] = Wire200

\* C5 witness: a staying client holds the six lines of the 200 response
C5_Witness ==
    \E c \in Conns :
        Successful(c) /\ req[c].version # "HTTP/0.9" /\ Len(wire[c]) = 6

\* the complete response to the request of c, as the client must see it
Complete(c) ==
    IF req[c].method = "GET"
    THEN IF req[c].version = "HTTP/0.9"
         THEN wire[c] = <<"Response from SLOW SERVER (5s delay)">>
         ELSE wire[c] = Wire200
    ELSE wire[c] # <<>> /\ Last(wire[c]) = "<html>error</html>"

\* C6: per-request failures are isolated.  When a handler has raised (the
\* peer disconnected and a write failed), the process is still serving, the
\* failed connection alone was closed, and every other connection the server
\* has finished with, whose client stayed, holds its complete response.
C6_FailuresIsolated ==
    (\E c \in Conns : failed[c] \/ cli[c] = "gone") =>
        /\ proc = "serving"
        /\ exitStatus = 0
        /\ \A c \in Conns : failed[c] => Closed(c) /\ cur # c
        /\ \A d \in Conns : Stayed(d) /\ Released(d) => Complete(d) /\ ~ failed[d]

\* C6 witness: a handler failed and was closed, and a request accepted after that failure
\* has received its complete response
C6_Witness ==
    \E c \in Conns : \E d \in Conns :
        /\ failed[c] /\ Closed(c)
        /\ cur = d /\ pc = "finish" /\ Stayed(d) /\ wire[d] = Wire200

\* C7: once the delay of a request has elapsed, the full response is written
\* before the server closes or reuses the connection: a client that stayed
\* connected never holds a partial response on a connection the server has
\* finished with.
C7_NoPartialResponse ==
    \A c \in Conns :
        Stayed(c) /\ InLife(c, "delaying") /\ Released(c) =>
            /\ slept[c] >= 5
            /\ wire[c] = (IF req[c].version = "HTTP/0.9"
                          THEN <<"Response from SLOW SERVER (5s delay)">>
                          ELSE Wire200)

\* C7 witness: the server closed the connection of a staying client after the whole response
C7_Witness ==
    \E c \in Conns :
        Stayed(c) /\ InLife(c, "delaying") /\ Closed(c) /\ Len(wire[c]) = 6

\* C8 (as claimed): a well-behaved client, one that sent its GET request and
\* stays connected, eventually receives the 200 response, whatever the other
\* clients do.
C8_WellBehavedServed ==
    \A c \in Conns :
        (cli[c] = "sent" /\ req[c].method = "GET")
            ~> (cli[c] = "gone" \/ (Closed(c) /\ status[c] = 200))

\* C9: a failed bind is fatal.  The process exits with a non-zero status and
\* never serves: no connection is ever established or accepted.  No exit has
\* status 0 (the program has no clean shutdown path).
C9_BindFailureFatal ==
    /\ ~ portFree =>
          /\ proc # "serving"
          /\ backlog = <<>> /\ cur = NoConn
          /\ \A c \in Conns : cli[c] = "idle" /\ life[c] = <<>>
    /\ proc = "exited" => exitStatus # 0
    /\ proc = "serving" => portFree

\* C9 witness: the port was taken and the process has exited with status 1
C9_Witness == ~ portFree /\ proc = "exited" /\ exitStatus = 1

\* the lifecycles of the specification and of a request no handler serves
Lifecycle == <<"accepted", "delaying", "responding", "closed">>

ErrorLifecycle == <<"accepted", "responding", "closed">>

Open(c) == life[c] # <<>> /\ ~ Closed(c)

\* C11: handling a request mutates no state shared between requests.  Between
\* two requests the process-wide state is what it was after startup (serving,
\* no handler, no buffered headers); and the response a request gets depends
\* on the request alone, not on which or how many requests were handled
\* before it: two served requests that are equal got equal delays, statuses
\* and responses.
C11_NoSharedMutation ==
    /\ proc = "serving" /\ pc = "accept" =>
          cur = NoConn /\ hbuf = <<>> /\ exitStatus = 0 /\ portFree
    /\ \A c \in Conns : \A d \in Conns :
          Stayed(c) /\ Stayed(d) /\ Released(c) /\ Released(d) /\ req[c] = req[d] =>
              wire[c] = wire[d] /\ status[c] = status[d] /\ slept[c] = slept[d]

\* C11 witness: the server is idle again after a handler failed with headers
\* in its buffer and, after it, a second request was served in full
C11_Witness ==
    /\ pc = "accept"
    /\ \E c \in Conns : \E d \in Conns :
          /\ c < d /\ failed[c] /\ wire[c] = <<>> /\ status[c] = 200
          /\ Stayed(d) /\ Closed(d) /\ wire[d] = Wire200

\* C12: at every moment at most one request is in the delaying or responding
\* state, and responses are completed in the order of acceptance: while an
\* accepted connection is unfinished, every other accepted connection has
\* already been closed, and no connection that was established later has been
\* closed.
C12_OneAtATimeInOrder ==
    /\ Cardinality({c \in Conns : life[c] # <<>>
                      /\ Last(life[c]) \in {"delaying", "responding"}}) <= 1
    /\ \A c \in Conns : \A d \in Conns :
          c # d /\ Open(c) /\ life[d] # <<>> => Closed(d) /\ d < c
    /\ \A c \in Conns : \A d \in Conns :
          c < d /\ Closed(d) => Closed(c)

\* C12 witness: the second connection waits in the queue with its request
\* sent while the first is in its delay
C12_Witness ==
    \E c \in Conns : \E d \in Conns :
        /\ c < d /\ Last(<<"-">> \o life[c]) = "delaying" /\ slept[c] > 0
        /\ cli[d] = "sent" /\ life[d] = <<>>

\* C13: every connection serves at most one request.  A connection is
\* accepted once, gets at most one response, and when the handler is done
\* with the request (response or failure) the connection is closed and never
\* read again, also when the request asked for keep-alive.
C13_OneRequestPerConnection ==
    \A c \in Conns :
        /\ Cardinality({i \in 1..Len(life[c]) : life[c][i] = "accepted"}) <= 1
        /\ Cardinality({i \in 1..Len(life[c]) : life[c][i] = "responding"}) <= 1
        /\ Closed(c) => cur # c
        /\ (status[c] # 0 \/ failed[c]) /\ cur # c => Closed(c)

\* C13 witness: a connection whose request asked for keep-alive is closed
\* after its complete response
C13_Witness ==
    \E c \in Conns :
        /\ req[c].connection = "keep-alive" /\ Stayed(c)
        /\ Closed(c) /\ wire[c] = Wire200

====
